---- MODULE Spec2Model ----
(***************************************************************************)
(* ByteTrie16 (src/src/lib.rs): a tree of at most 16 labelled edges packed *)
(* into two 16-byte vectors, and a branch-free traversal over them.  The   *)
(* reference walk is TestTree::traverse (src/src/tests.rs).                *)
(*                                                                         *)
(* The bytes of the two vectors are integers 0..255 and a vector is a      *)
(* function on the lanes 0..15.  The match bytes of traverse and its       *)
(* 16-bit lane masks are kept as the sets of their set bits.               *)
(* Option<usize> is an integer with None = -1, which keeps the derived     *)
(* order None < Some(_).                                                   *)
(*                                                                         *)
(* shuffle1_dyn is the byte shuffle of packed_simd; it is modelled as the  *)
(* instruction it compiles to on the x86 targets with SSSE3 (pshufb): a    *)
(* lane whose index byte has bit 7 set reads zero, any other lane reads    *)
(* the lane named by the low four bits of its index byte.                  *)
(***************************************************************************)
EXTENDS Integers, Sequences, FiniteSets

(* ---------------------------------------------------------------------- *)
(* Program constants                                                       *)
(* ---------------------------------------------------------------------- *)

\* the lane count of u8x16, N of build_tree::<16>
Lanes == 16

\* build_tree(edges, 8)
max_depth == 8

\* the length of the query buffer, &[u8; 8]
QueryWidth == 8

\* let root_byte = 0b1000_0000
root_byte == 128

\* let mut packed_nodes = [0b1001_1111; N]
unused_node == 159

\* Option::None of Edge.parent
None == -1

(* ---------------------------------------------------------------------- *)
(* Bounds of the model                                                     *)
(* ---------------------------------------------------------------------- *)

\* input sets of the general family have at most MaxEdges edges
MaxEdges == 2

\* the first QueryVar bytes of an enumerated query buffer vary
QueryVar == 2

(* ---------------------------------------------------------------------- *)
(* Fixed-width helpers                                                     *)
(* ---------------------------------------------------------------------- *)

\* the bytes of packed_nodes are integers; bit k of byte x, and x | (1 << k)
TestBit(x, k) == (x \div (2 ^ k)) % 2 = 1
SetBit(x, k) == IF TestBit(x, k) THEN x ELSE x + 2 ^ k

\* A match byte (a lane of edge_matches, matches0 .. matches7) is the set of
\* its set bits, a subset of 0..7: & is intersection, | is union, and << 1
\* moves every bit up by one and drops the bit that leaves the byte.
ByteBits == 0 .. 7
Shl1(b) == { i + 1 : i \in b } \cap ByteBits

\* A 16-bit lane mask (the result of bitmask()) is the set of its set bits,
\* a subset of the lanes 0..15.
LaneSet == 0 .. (Lanes - 1)

\* u16::trailing_zeros: the least set bit, 16 for zero
trailing_zeros(m) ==
    IF m = {} THEN 16 ELSE CHOOSE i \in m : \A j \in m : i <= j

\* (1u16 << pos) - 1
below(pos) == 0 .. (pos - 1)

\* u16::count_ones
count_ones(m) == Cardinality(m)

\* u8x16::shuffle1_dyn (pshufb), lane by lane: the lane of the source that a
\* lane with index byte i reads, or NoLane when it reads zero
NoLane == -1

\* a shuffle that reads the low four bits of every index byte, bit 7 or not
shuffle_src_low4(i) == i % 16

shuffle_src(i) == IF i >= 128 THEN NoLane ELSE i % 16

(* ---------------------------------------------------------------------- *)
(* Edge and its derived order                                              *)
(* ---------------------------------------------------------------------- *)

Edge(p, l, n, v, b) ==
    [parent |-> p, label |-> l, number |-> n, has_value |-> v, has_branch |-> b]

\* Edge::bound
bound(p) == Edge(p, 0, 0, FALSE, FALSE)

BoolNum(b) == IF b THEN 1 ELSE 0

\* #[derive(Ord)] on Edge: lexicographic in field order
EdgeLess(a, b) ==
    \/ a.parent < b.parent
    \/ /\ a.parent = b.parent
       /\ \/ a.label < b.label
          \/ /\ a.label = b.label
             /\ \/ a.number < b.number
                \/ /\ a.number = b.number
                   /\ \/ BoolNum(a.has_value) < BoolNum(b.has_value)
                      \/ /\ a.has_value = b.has_value
                         /\ BoolNum(a.has_branch) < BoolNum(b.has_branch)

\* BTreeSet::iter: the elements in ascending order
RECURSIVE SortedSeq(_)
SortedSeq(S) ==
    IF S = {} THEN << >>
    ELSE LET m == CHOOSE x \in S : \A y \in S \ {x} : EdgeLess(x, y)
         IN  << m >> \o SortedSeq(S \ {m})

\* edges.range(Edge::bound(node)..Edge::bound(Some(node + 1 or 0)))
ChildRange(E, node) ==
    LET start == bound(node)
        end   == bound(IF node = None THEN 0 ELSE node + 1)
    IN  { e \in E : ~EdgeLess(e, start) /\ EdgeLess(e, end) }

RECURSIVE Reverse(_)
Reverse(s) == IF s = << >> THEN << >> ELSE Reverse(Tail(s)) \o << Head(s) >>

(* ---------------------------------------------------------------------- *)
(* ByteTrie16::traverse                                                    *)
(* ---------------------------------------------------------------------- *)

\* Lookup
LookupNone == [kind |-> "None", rank |-> 0]
Branch(r) == [kind |-> "Branch", rank |-> r]
Value(r) == [kind |-> "Value", rank |-> r]
Panic == [kind |-> "Panic", rank |-> 0]

\* edge_matches, lane s: bit i is set iff edges[s] = query[i]
edge_matches(t, q, s) == { i \in ByteBits : t.edges[s] = q[i + 1] }

\* is lane s taken as a root edge by matches0?
is_root_lane(t, s) == t.nodes[s] = root_byte

\* matches0 (d = 0) .. matches7 (d = 7), lane s:
\* (matches_{d-1}.shuffle1_dyn(self.nodes) << 1) & edge_matches
RECURSIVE matches(_, _, _, _)
matches(t, q, d, s) ==
    IF d = 0
    THEN IF is_root_lane(t, s) THEN edge_matches(t, q, s) ELSE {}
    ELSE IF shuffle_src(t.nodes[s]) = NoLane THEN {}
    ELSE Shl1(matches(t, q, d - 1, shuffle_src(t.nodes[s]))) \cap edge_matches(t, q, s)

\* a mask taken from the whole state, without & splat(1 << (query_len - 1))
match_mask_any_bit(t, q, len) ==
    { s \in LaneSet : matches(t, q, len - 1, s) # {} }

\* match_mask, for 1 <= len <= 8
match_mask(t, q, len) ==
    { s \in LaneSet : matches(t, q, len - 1, s) \cap {len - 1} # {} }

values(t) == { s \in LaneSet : TestBit(t.nodes[s], 6) }
branches(t) == { s \in LaneSet : TestBit(t.nodes[s], 5) }

\* a match with one arm too many
valid_len_upto9(len) == 1 <= len /\ len <= 9

\* match query_len { 1 => .., 8 => .., _ => panic!(..) }
valid_len(len) == 1 <= len /\ len <= 8

traverse(t, q, len) ==
    IF ~valid_len(len) THEN Panic
    ELSE LET mm           == match_mask(t, q, len)
             value_match  == mm \cap values(t)
             branch_match == mm \cap branches(t)
             branch_pos   == trailing_zeros(branch_match)
             value_pos    == trailing_zeros(value_match)
         IN  IF branch_pos # 16
             THEN Branch(count_ones(branches(t) \cap below(branch_pos)))
             ELSE IF value_pos # 16
             THEN Value(count_ones(values(t) \cap below(value_pos)))
             ELSE LookupNone

(* ---------------------------------------------------------------------- *)
(* TestTree::traverse, the reference walk                                  *)
(* ---------------------------------------------------------------------- *)

\* .find(|e| e.label == byte) over a range: the least matching element
FindLabel(S, byte) ==
    LET M == { e \in S : e.label = byte }
    IN  IF M = {} THEN {} ELSE { CHOOSE x \in M : \A y \in M \ {x} : EdgeLess(x, y) }

\* the walk over query[1..len]: the number reached, or "miss"
RECURSIVE Walk(_, _, _, _)
Walk(E, q, len, i) ==
    IF i = 0 THEN None
    ELSE LET cur == Walk(E, q, len, i - 1)
         IN  IF cur = -2 THEN -2
             ELSE LET f == FindLabel(ChildRange(E, cur), q[i])
                  IN  IF f = {} THEN -2 ELSE (CHOOSE e \in f : TRUE).number

TestTree_traverse(E, q, len) ==
    LET cur_node == Walk(E, q, len, len)
    IN  IF cur_node = -2 THEN LookupNone
        ELSE LET e == Head(SelectSeq(SortedSeq(E), LAMBDA x : x.number = cur_node))
             IN  IF e.has_branch
                 THEN Branch(Cardinality({ x \in E : x.has_branch /\ x.number < cur_node }))
                 ELSE IF e.has_value
                 THEN Value(Cardinality({ x \in E : x.has_value /\ x.number < cur_node }))
                 ELSE LookupNone

(* ---------------------------------------------------------------------- *)
(* State                                                                   *)
(* ---------------------------------------------------------------------- *)

VARIABLES
    edges,            \* the BTreeSet<Edge> handed to ByteTrie16::new
    pc,               \* "start", "build" (inside build_tree's loop), "ready", "panic"
    stack,            \* build_tree: Vec<(Option<Edge>, usize)>, top last
    next_dfs,         \* build_tree: next_dfs
    dfs_assignments,  \* build_tree: HashMap<usize, u8>
    packed_edges,     \* build_tree: [u8; N]
    packed_nodes,     \* build_tree: [u8; N]
    trie,             \* the ByteTrie16 built: [nodes, edges]
    query,            \* the last query buffer
    query_len,        \* the last query length
    result            \* what the last traverse did

vars == << edges, pc, stack, next_dfs, dfs_assignments, packed_edges, packed_nodes,
           trie, query, query_len, result >>

NoEntry == [has |-> FALSE, edge |-> bound(None), depth |-> 0]
SomeEntry(e, d) == [has |-> TRUE, edge |-> e, depth |-> d]

NoTrie == [nodes |-> [s \in LaneSet |-> 0], edges |-> [s \in LaneSet |-> 0]]
NoQuery == [i \in 1 .. QueryWidth |-> 0]
NoResult == [kind |-> "Unset", rank |-> 0]

(* ---------------------------------------------------------------------- *)
(* Inputs                                                                  *)
(* ---------------------------------------------------------------------- *)

\* the depth of the edge numbered n (root edges have depth 1), or 0 when its
\* parent chain leaves the set or does not end within fuel steps
RECURSIVE DepthOf(_, _, _)
DepthOf(E, n, fuel) ==
    IF fuel = 0 \/ ~(\E e \in E : e.number = n) THEN 0
    ELSE LET e == CHOOSE x \in E : x.number = n
         IN  IF e.parent = None THEN 1
             ELSE LET up == DepthOf(E, e.parent, fuel - 1)
                  IN  IF up = 0 THEN 0 ELSE up + 1

Depth(E, e) == DepthOf(E, e.number, Cardinality(E))

\* section 3.1, invariant 3, with distinct numbers: the parent references form a tree
IsTree(E) ==
    /\ \A e, f \in E : e.number = f.number => e = f
    /\ \A e \in E : Depth(E, e) > 0

\* section 3.1, invariant 4
DistinctSiblings(E) ==
    \A e, f \in E : (e.parent = f.parent /\ e.label = f.label) => e = f

TreeDepth(E) == IF E = {} THEN 0 ELSE CHOOSE d \in { Depth(E, e) : e \in E } :
                                        \A e \in E : Depth(E, e) <= d

\* the labels of the general family, and the bytes of its queries: the
\* labels and a byte that no edge of the family bears
Labels == { 0, 1 }
QueryBytes == { 0, 1, 2 }

\* (has_value, has_branch), never both (section 3.1, invariant 5)
Flags == { << FALSE, FALSE >>, << TRUE, FALSE >>, << FALSE, TRUE >> }

\* The general family: n <= MaxEdges edges numbered 0..n-1; a parent is None,
\* a number of the set, or n, a number no edge bears.  Every tree comes with
\* every choice of labels and flags; the sets whose parent references are
\* malformed come with every choice of labels, unflagged.
GeneralInputs ==
    UNION { { E \in { { Edge(par[i], lab[i], i, fl[i][1], fl[i][2]) : i \in 0 .. (n - 1) } :
                        par \in [0 .. (n - 1) -> (None .. n)],
                        lab \in [0 .. (n - 1) -> Labels],
                        fl  \in [0 .. (n - 1) -> Flags] } :
                \/ IsTree(E)
                \/ \A e \in E : ~e.has_value /\ ~e.has_branch } :
            n \in 0 .. MaxEdges }

\* the tree of test_tree (lib.rs and tests.rs)
TestTreeInput ==
    { Edge(None, 1, 0, FALSE, FALSE),
      Edge(None, 2, 1, FALSE, FALSE),
      Edge(0, 3, 2, TRUE, FALSE),
      Edge(0, 4, 3, TRUE, FALSE),
      Edge(1, 5, 4, FALSE, FALSE),
      Edge(4, 7, 5, TRUE, FALSE) }

\* scenario G: a single root edge that bears a branch
BranchRootInput == { Edge(None, 10, 0, FALSE, TRUE) }

\* The boundary family: a spine of d edges numbered 0..d-1, each the parent of
\* the next, and n - d leaves numbered d..n-1 hanging below spine edge j - 1
\* (below the root for j = 0).  d and n range around max_depth and Lanes.
SpineLabel(pat, i) ==
    IF pat = "zero" THEN 0 ELSE IF pat = "one" THEN 1 ELSE i % 2

Caterpillar(d, n, j, pat) ==
    { Edge(i - 1, SpineLabel(pat, i), i, i % 2 = 1, i # 0 /\ i % 2 = 0) :
        i \in 0 .. (d - 1) }
    \cup
    { Edge(j - 1, 255 - (i - d), i, TRUE, FALSE) : i \in d .. (n - 1) }

BoundaryInputs ==
    { Caterpillar(d, n, j, pat) :
        d \in (max_depth - 1) .. (max_depth + 1),
        n \in (Lanes - 1) .. (Lanes + 1),
        j \in { 0, 1, max_depth - 1 },
        pat \in { "zero", "one", "alt" } }

Inputs == GeneralInputs \cup BoundaryInputs \cup { TestTreeInput, BranchRootInput }

\* the labels from the root down to the edge numbered n, for a tree
RECURSIVE PathTo(_, _)
PathTo(E, n) ==
    IF n = None THEN << >>
    ELSE LET e == CHOOSE x \in E : x.number = n
         IN  Append(PathTo(E, e.parent), e.label)

Padded(p, pad) == [i \in 1 .. QueryWidth |-> IF i <= Len(p) THEN p[i] ELSE pad]

\* the keys of a tree, each padded to the width of the buffer
PathQueries(E) ==
    IF ~IsTree(E) THEN {}
    ELSE { Padded(PathTo(E, e.number), pad) :
             e \in { x \in E : Depth(E, x) <= QueryWidth }, pad \in Labels }

\* query buffers: the first QueryVar bytes vary
Queries ==
    { [i \in 1 .. QueryWidth |-> IF i <= QueryVar THEN f[i] ELSE 0] :
      f \in [1 .. QueryVar -> QueryBytes] }

\* the query of test_tree
TestQuery == << 0, 1, 4, 0, 0, 0, 0, 0 >>

\* the queries put to the trie built from E
QueriesFor(E) == Queries \cup PathQueries(E) \cup { TestQuery }

\* the lengths passed: every valid one, and one invalid on either side
QueryLens == 0 .. (QueryWidth + 1)

(* ---------------------------------------------------------------------- *)
(* Operations                                                              *)
(* ---------------------------------------------------------------------- *)

Init ==
    /\ edges \in Inputs
    /\ pc = "start"
    /\ stack = << >>
    /\ next_dfs = 0
    /\ dfs_assignments = [x \in {} |-> 0]
    /\ packed_edges = [s \in LaneSet |-> 0]
    /\ packed_nodes = [s \in LaneSet |-> 0]
    /\ trie = NoTrie
    /\ query = NoQuery
    /\ query_len = 0
    /\ result = NoResult

\* unused slots left as zero bytes: children of slot 0
fresh_nodes_zero == [s \in LaneSet |-> 0]

\* let mut packed_nodes = [0b1001_1111; N]
fresh_nodes == [s \in LaneSet |-> unused_node]

\* let mut packed_edges = [0b0000_0000; N]
fresh_edges == [s \in LaneSet |-> 0]

\* ByteTrie16::new up to the first iteration of build_tree's loop
New ==
    /\ pc = "start"
    /\ IF Cardinality(edges) <= 16
       THEN /\ pc' = "build"
            /\ packed_edges' = fresh_edges
            /\ packed_nodes' = fresh_nodes
            /\ next_dfs' = 0
            /\ dfs_assignments' = [x \in {} |-> 0]
            /\ stack' = << NoEntry >>
       ELSE /\ pc' = "panic"
            /\ UNCHANGED << packed_edges, packed_nodes, next_dfs, dfs_assignments, stack >>
    /\ UNCHANGED << edges, trie, query, query_len, result >>

\* parent_byte of the edge popped
parent_byte(edge, assign) ==
    LET base == IF edge.parent # None THEN assign[edge.parent] ELSE root_byte
        withv == IF edge.has_value THEN SetBit(base, 6) ELSE base
    IN  IF edge.has_branch THEN SetBit(withv, 5) ELSE withv

\* children pushed without .rev(): the greatest ends on top
pushed_unreversed(E, top) ==
    LET node == IF top.has THEN top.edge.number ELSE None
        kids == SortedSeq(ChildRange(E, node))
    IN  [i \in 1 .. Len(kids) |-> SomeEntry(kids[i], top.depth + 1)]

\* the children pushed after a pop: edges.range(..).rev(), so the least ends on top
pushed(E, top) ==
    LET node == IF top.has THEN top.edge.number ELSE None
        kids == Reverse(SortedSeq(ChildRange(E, node)))
    IN  [i \in 1 .. Len(kids) |-> SomeEntry(kids[i], top.depth + 1)]

\* the depth assertion off by one: assert!(depth < max_depth)
step_panics_early(top) ==
    \/ top.depth >= max_depth
    \/ /\ top.has
       /\ \/ top.edge.number \in DOMAIN dfs_assignments
          \/ /\ top.edge.parent # None
             /\ top.edge.parent \notin DOMAIN dfs_assignments \cup {top.edge.number}
          \/ next_dfs >= Lanes

\* does the iteration that pops top hit one of the loop's assertions or panics?
step_panics(top) ==
    \/ top.depth > max_depth
    \/ /\ top.has
       /\ \/ top.edge.number \in DOMAIN dfs_assignments
          \/ /\ top.edge.parent # None
             /\ \/ top.edge.parent \notin DOMAIN dfs_assignments
                   \cup {top.edge.number}
                \/ (IF top.edge.parent = top.edge.number THEN next_dfs
                    ELSE dfs_assignments[top.edge.parent]) >= 32
          \/ next_dfs >= Lanes

\* one iteration of build_tree's loop; when the stack runs empty the loop ends
\* and new() returns the trie
BuildStep ==
    /\ pc = "build"
    /\ stack # << >>
    /\ LET top  == stack[Len(stack)]
           rest == SubSeq(stack, 1, Len(stack) - 1)
       IN  IF step_panics(top)
           THEN /\ pc' = "panic"
                /\ UNCHANGED << stack, next_dfs, dfs_assignments, packed_edges,
                                packed_nodes, trie >>
           ELSE LET assign == IF top.has
                              THEN [x \in DOMAIN dfs_assignments \cup {top.edge.number} |->
                                      IF x = top.edge.number THEN next_dfs
                                      ELSE dfs_assignments[x]]
                              ELSE dfs_assignments
                    nodes2 == IF top.has
                              THEN [packed_nodes EXCEPT
                                      ![next_dfs] = parent_byte(top.edge, assign)]
                              ELSE packed_nodes
                    edges2 == IF top.has
                              THEN [packed_edges EXCEPT ![next_dfs] = top.edge.label]
                              ELSE packed_edges
                    stack2 == rest \o pushed(edges, top)
                IN  /\ dfs_assignments' = assign
                    /\ next_dfs' = IF top.has THEN next_dfs + 1 ELSE next_dfs
                    /\ packed_nodes' = nodes2
                    /\ packed_edges' = edges2
                    /\ stack' = stack2
                    /\ IF stack2 = << >>
                       THEN /\ pc' = "ready"
                            /\ trie' = [nodes |-> nodes2, edges |-> edges2]
                       ELSE /\ pc' = "build"
                            /\ UNCHANGED trie
    /\ UNCHANGED << edges, query, query_len, result >>

\* a call of traverse on the trie built
Traverse ==
    /\ pc = "ready"
    /\ result = NoResult
    /\ \E q \in QueriesFor(edges), len \in QueryLens :
         /\ query' = q
         /\ query_len' = len
         /\ result' = traverse(trie, q, len)
    /\ UNCHANGED << edges, pc, stack, next_dfs, dfs_assignments, packed_edges,
                    packed_nodes, trie >>

\* the caller takes the Lookup; the trie is ready for the next query
Return ==
    /\ pc = "ready"
    /\ result # NoResult
    /\ result.kind # "Panic"
    /\ query' = NoQuery
    /\ query_len' = 0
    /\ result' = NoResult
    /\ UNCHANGED << edges, pc, stack, next_dfs, dfs_assignments, packed_edges,
                    packed_nodes, trie >>

Next == New \/ BuildStep \/ Traverse \/ Return

Spec == Init /\ [][Next]_vars

(* ---------------------------------------------------------------------- *)
(* Vocabulary of the properties                                            *)
(* ---------------------------------------------------------------------- *)

\* the input invariants of section 3.1 (size and depth are what new() checks)
ValidInput(E) ==
    /\ IsTree(E)
    /\ DistinctSiblings(E)
    /\ Cardinality(E) <= Lanes
    /\ TreeDepth(E) <= max_depth

\* a traverse has returned or panicked and its result is at hand
Queried == pc = "ready" /\ result # NoResult

Prefix(q, len) == SubSeq(q, 1, len)

\* q[1..len] spells the labels from the root down to some edge of the tree
IsKey(E, q, len) == \E e \in E : PathTo(E, e.number) = Prefix(q, len)

\* the slot the build gave to the edge numbered n
SlotOf(n) == dfs_assignments[n]

\* pre-order depth-first, siblings in ascending input order, from the tree alone
ChildrenOf(E, node) == { e \in E : e.parent = node }

RECURSIVE PreOrderOf(_, _, _)
PreOrderOf(E, kids, fuel) ==
    IF kids = {} \/ fuel = 0 THEN << >>
    ELSE LET c == CHOOSE x \in kids : \A y \in kids \ {x} : EdgeLess(x, y)
         IN  << c >> \o PreOrderOf(E, ChildrenOf(E, c.number), fuel - 1)
                     \o PreOrderOf(E, kids \ {c}, fuel)

PreOrder(E) == PreOrderOf(E, ChildrenOf(E, None), Cardinality(E))

(* ---------------------------------------------------------------------- *)
(* C1                                                                      *)
(* ---------------------------------------------------------------------- *)

\* C1: for every valid input and every query of length 1..8, traverse returns
\* exactly what the reference walk TestTree::traverse returns.
C1_OracleEquivalence ==
    (Queried /\ ValidInput(edges) /\ query_len \in 1 .. QueryWidth)
        => result = TestTree_traverse(edges, query, query_len)

(* ---------------------------------------------------------------------- *)
(* C2                                                                      *)
(* ---------------------------------------------------------------------- *)

\* C2: on a valid trie, a query of length 1..8 that is not the label sequence
\* of a root-to-edge path returns None.
C2_NegativeQueries ==
    (Queried /\ ValidInput(edges) /\ query_len \in 1 .. QueryWidth
        /\ ~IsKey(edges, query, query_len))
        => result = LookupNone

\* a miss of length 2 whose last byte is the label of a flagged edge at depth 2
\* and whose first byte is the label of a root edge that is not its parent
C2_Witness ==
    /\ Queried /\ ValidInput(edges) /\ query_len = 2
    /\ ~IsKey(edges, query, query_len)
    /\ result = LookupNone
    /\ \E e, r \in edges :
         /\ e.parent # None /\ e.has_value /\ e.label = query[2]
         /\ r.parent = None /\ r.label = query[1] /\ r.number # e.parent

(* ---------------------------------------------------------------------- *)
(* C3                                                                      *)
(* ---------------------------------------------------------------------- *)

\* C3: on a valid trie, a query of length 1 whose byte is the label of a root
\* edge that bears a branch (a value) returns Branch(r) (Value(r)), r the number
\* of branch-bearing (value-bearing) slots with a smaller DFS index.
C3_FlaggedRootReachable ==
    (Queried /\ ValidInput(edges) /\ query_len = 1)
        => \A e \in edges :
             (e.parent = None /\ e.label = query[1])
             => /\ e.has_branch =>
                     result = Branch(Cardinality({ f \in edges :
                                 f.has_branch /\ SlotOf(f.number) < SlotOf(e.number) }))
                /\ (e.has_value /\ ~e.has_branch) =>
                     result = Value(Cardinality({ f \in edges :
                                 f.has_value /\ SlotOf(f.number) < SlotOf(e.number) }))

(* ---------------------------------------------------------------------- *)
(* C4                                                                      *)
(* ---------------------------------------------------------------------- *)

\* C4: for every trie and every length 1..8, the result is the one obtained
\* with the bytes at positions >= query_len replaced by any other byte, so two
\* buffers that agree on the first query_len bytes get the same result.
C4_TrailingBytesIgnored ==
    (Queried /\ query_len \in 1 .. QueryWidth)
        => \A pad \in QueryBytes :
             traverse(trie, Padded(Prefix(query, query_len), pad), query_len) = result

\* a key of length 2 that bears a value is found although the buffer goes on
\* to spell a longer key of the tree
C4_Witness ==
    /\ Queried /\ IsTree(edges) /\ query_len = 2 /\ result.kind = "Value"
    /\ IsKey(edges, query, 3)

(* ---------------------------------------------------------------------- *)
(* C5                                                                      *)
(* ---------------------------------------------------------------------- *)

\* C5: traverse with query_len = 0 or query_len > 8 panics and returns no
\* Lookup; with query_len in 1..8 it returns None, Branch or Value.
C5_InvalidLenRejected ==
    Queried =>
        IF query_len = 0 \/ query_len > QueryWidth
        THEN result = Panic
        ELSE result.kind \in { "None", "Branch", "Value" }

C5_Witness == Queried /\ query_len = QueryWidth + 1 /\ result = Panic

(* ---------------------------------------------------------------------- *)
(* C6                                                                      *)
(* ---------------------------------------------------------------------- *)

\* C6: new() fails and builds no trie when some parent number is borne by no
\* edge, or the parent references form a cycle, or two siblings share a label.
C6_MalformedRejected ==
    (~IsTree(edges) \/ ~DistinctSiblings(edges)) => pc # "ready"

(* ---------------------------------------------------------------------- *)
(* C7                                                                      *)
(* ---------------------------------------------------------------------- *)

\* C7: for an input whose parent references form a tree, new() fails if and
\* only if the set has more than 16 edges or an edge at depth greater than 8;
\* until it has failed or returned, build_tree has a next iteration to run.
C7_SizeBounds ==
    IsTree(edges) =>
        /\ pc = "panic" => (Cardinality(edges) > 16 \/ TreeDepth(edges) > 8)
        /\ pc = "ready" => (Cardinality(edges) <= 16 /\ TreeDepth(edges) <= 8)
        /\ pc = "build" => stack # << >>

\* a tree with exactly 16 edges and depth exactly 8 has been built
C7_Witness ==
    /\ pc = "ready" /\ IsTree(edges)
    /\ Cardinality(edges) = 16 /\ TreeDepth(edges) = 8

(* ---------------------------------------------------------------------- *)
(* C8                                                                      *)
(* ---------------------------------------------------------------------- *)

\* the Lookup of the key that ends on edge e
KeyResult(E, e) ==
    traverse(trie, Padded(PathTo(E, e.number), 0), Depth(E, e))

\* C8: on a valid trie with K branch-bearing and V value-bearing edges, the
\* queries of all the keys yield each Branch rank of 0..K-1 exactly once and no
\* other, and each Value rank of 0..V-1 exactly once and no other.
C8_RankConsistency ==
    (pc = "ready" /\ result = NoResult /\ ValidInput(edges)) =>
        LET K == Cardinality({ e \in edges : e.has_branch })
            V == Cardinality({ e \in edges : e.has_value })
        IN  /\ \A r \in 0 .. (K - 1) :
                 Cardinality({ e \in edges : KeyResult(edges, e) = Branch(r) }) = 1
            /\ \A r \in 0 .. (V - 1) :
                 Cardinality({ e \in edges : KeyResult(edges, e) = Value(r) }) = 1
            /\ \A e \in edges :
                 /\ KeyResult(edges, e).kind = "Branch" => KeyResult(edges, e).rank < K
                 /\ KeyResult(edges, e).kind = "Value" => KeyResult(edges, e).rank < V

(* ---------------------------------------------------------------------- *)
(* C9                                                                      *)
(* ---------------------------------------------------------------------- *)

\* C9: whatever the query and the length 1..8, no slot beyond the slots the
\* build has filled is in the terminal match mask; and the query of test_tree,
\* whose first byte is the label 0 of the unused slots, returns None.
C9_UnusedSlotsNeverMatch ==
    (Queried /\ query_len \in 1 .. QueryWidth) =>
        /\ match_mask(trie, query, query_len) \cap { s \in LaneSet : s >= next_dfs } = {}
        /\ (edges = TestTreeInput /\ query = TestQuery /\ query_len = 1)
             => result = LookupNone

\* test_tree: six edges, ten unused slots, a query that starts with a zero byte
C9_Witness ==
    /\ Queried /\ edges = TestTreeInput /\ next_dfs = 6
    /\ query = TestQuery /\ query_len = 1 /\ result = LookupNone

(* ---------------------------------------------------------------------- *)
(* C10                                                                     *)
(* ---------------------------------------------------------------------- *)

\* C10: after build_tree on a valid tree of n edges the edges fill the slots
\* 0..n-1 one-to-one in pre-order, siblings in ascending input order; when a
\* non-root edge is popped its parent has a slot; and the low four bits of
\* nodes[s] are the slot of the parent of the edge in s, a slot less than s.
C10_DfsPreOrder ==
    IsTree(edges) =>
        /\ (pc = "build" /\ stack # << >>) =>
             LET top == stack[Len(stack)]
             IN  (top.has /\ top.edge.parent # None /\ top.depth <= max_depth)
                     => top.edge.parent \in DOMAIN dfs_assignments
        /\ pc = "ready" =>
             LET order == PreOrder(edges)
                 n     == Cardinality(edges)
             IN  /\ next_dfs = n
                 /\ Len(order) = n
                 /\ DOMAIN dfs_assignments = { e.number : e \in edges }
                 /\ \A i \in 1 .. n :
                      /\ SlotOf(order[i].number) = i - 1
                      /\ trie.edges[i - 1] = order[i].label
                      /\ order[i].parent # None =>
                           /\ trie.nodes[i - 1] % 16 = SlotOf(order[i].parent)
                           /\ SlotOf(order[i].parent) < i - 1
                           /\ ~TestBit(trie.nodes[i - 1], 7)
                      /\ order[i].parent = None => TestBit(trie.nodes[i - 1], 7)

\* test_tree is built: edge #1, the second in input order, sits in slot 3 behind
\* the subtree of edge #0, and edge #5 in slot 5 names slot 4 as its parent
C10_Witness ==
    /\ pc = "ready" /\ edges = TestTreeInput
    /\ SlotOf(1) = 3 /\ SlotOf(4) = 4 /\ SlotOf(5) = 5
    /\ trie.nodes[5] % 16 = 4

====
